---- MODULE Spec2Model ----
(***************************************************************************)
(* The academy portal backend (Express + Mongoose), modelled as a state    *)
(* machine over the document store.  The repository holds several         *)
(* near-duplicate programs; `variant' selects the program whose handlers   *)
(* run:                                                                    *)
(*   "v1"  src/backend/server.js lines 1-470    (upsert drafts, title      *)
(*         guard on conduct, case-insensitive scoring, no try/catch)       *)
(*   "v2"  src/backend/server.js lines 472-1010 (same routes as            *)
(*         src/unnamed/part_001: create/PUT drafts, (title,testNumber)     *)
(*         guard, PDF drafts with checked finalize, try/catch)             *)
(*   "p3"  src/unnamed/part_003 (bulk paste, conduct without guard,        *)
(*         bearer-auth submit with duplicate lookup, exact scoring)        *)
(*   "p5"  src/unnamed/part_005 (PDF drafts with unchecked finalize,       *)
(*         conduct and submit without any null checks)                     *)
(* A handler suspends at every store call (await).  Each action is one     *)
(* store call together with the synchronous code around it: the first      *)
(* action of a handler is the arrival of the request, its validation and   *)
(* its first store call; every later action is the next store call and     *)
(* the code that follows it up to the next await or to the response.       *)
(***************************************************************************)
EXTENDS Integers, Sequences, FiniteSets, TLC

\* ------------------------------------------------------------------ bounds
MaxIds == 3       \* ObjectIds the store hands out in one run
MaxQ == 2         \* questions in one request body / parsed PDF

\* ------------------------------------------------------------ value domains
Clients == {"c1", "c2"}            \* connections, one request in flight on each
Mobiles == {"m1", "m2"}
Ids == 1..MaxIds

Null == "null"                     \* JSON null / Mongoose null
Undef == "undef"                   \* JavaScript undefined (absent field, index past the end)
NotArray == <<"#absent">>          \* a request body without an answers array

SeqsUpTo(S, n) == UNION {[1..k -> S] : k \in 0..n}

NoDoc == [none |-> TRUE]           \* a lookup that found nothing / no local yet

VARIABLES variant, nextId, draftExams, pdfDrafts, exams, results, req,
          students, issued, now

vars == <<variant, nextId, draftExams, pdfDrafts, exams, results, req,
          students, issued, now>>
store == <<nextId, draftExams, pdfDrafts, exams, results>>
\* the Student collection, the credentials login has signed so far, the clock
auth == <<students, issued, now>>

\* ------------------------------------------------------------ JS helpers
IsString(v) == v \notin {Null, Undef}
Falsy(v) == v \in {Null, Undef, ""}

toLowerCase(s) ==
  CASE s = "A" -> "a" [] s = "B" -> "b" [] s = "C" -> "c" [] s = "D" -> "d"
    [] s = "X" -> "x" [] OTHER -> s

toUpperCase(s) ==
  CASE s = "a" -> "A" [] s = "b" -> "B" [] s = "c" -> "C" [] s = "d" -> "D"
    [] s = "x" -> "X" [] OTHER -> s

\* answers[i] of a JavaScript array (1-based here): undefined past the end
At(answers, i) == IF i \in 1..Len(answers) THEN answers[i] ELSE Undef

\* ------------------------------------------------------------ store helpers
Insert(coll, id, doc) == [i \in DOMAIN coll \cup {id} |-> IF i = id THEN doc ELSE coll[i]]
Remove(coll, id) == [i \in DOMAIN coll \ {id} |-> coll[i]]
FindById(coll, id) == IF id \in DOMAIN coll THEN coll[id] ELSE NoDoc
Min(S) == CHOOSE x \in S : \A y \in S : x <= y
\* findOne: the first document (natural order) that matches, 0 when none does
FindOneId(hit) == IF hit = {} THEN 0 ELSE Min(hit)

\* ------------------------------------------------------------ requests
\* status 0: no response was sent (nothing arrived yet, or the handler threw
\* outside any try/catch and Express never answers)
NoResponse == 0
Idle == [op |-> "none", pc |-> "idle", status |-> NoResponse, id |-> 0, who |-> "",
         name |-> "", body |-> NoDoc, doc |-> NoDoc]
NewReq(op, pc, id, who, body, doc) ==
  [op |-> op, pc |-> pc, status |-> NoResponse, id |-> id, who |-> who,
   name |-> "", body |-> body, doc |-> doc]
\* the response is sent; the handler's locals are gone
Reply(r, code) ==
  [op |-> r.op, pc |-> "idle", status |-> code, id |-> r.id, who |-> r.who,
   name |-> r.name, body |-> NoDoc, doc |-> NoDoc]
CanStart(c) == req[c].pc = "idle"
At_(c, op, pc) == req[c].op = op /\ req[c].pc = pc

\* an empty database and no request in progress, program v
Start(v) ==
  /\ variant = v
  /\ nextId = 1
  /\ draftExams = << >>
  /\ pdfDrafts = << >>
  /\ exams = << >>
  /\ results = << >>
  /\ req = [c \in Clients |-> Idle]
  /\ students = << >>
  /\ issued = {}
  /\ now = 0

Init == \E v \in {"v1", "v2"} : Start(v)

\* a body whose `questions' is the object { length: 2, correctAnswer: 'A' }
\* instead of an array
ArrayLike == <<"#length:2", "A">>
\* questions.length as the handlers read it
length(questions) == IF questions = ArrayLike THEN 2 ELSE Len(questions)
\* Mongoose casts a value that is no array to an array holding that value
castArray(questions) == IF questions = ArrayLike THEN <<"A">> ELSE questions

DraftDoc(title, testNumber, questions) ==
  [title |-> title, testNumber |-> testNumber,
   totalQuestions |-> length(questions), questions |-> castArray(questions)]

\* ------------------------------------------------------ POST /drafts
\* v2: validate, then await draft.save() of a new document
PostDraftsCreate(c, title, testNumber, questions) ==
  /\ variant = "v2"
  /\ CanStart(c)
  /\ LET r == NewReq("postDrafts", "save", 0, "", NoDoc, NoDoc)
     IN IF length(questions) = 0
        THEN /\ req' = [req EXCEPT ![c] = Reply(r, 400)]
             /\ UNCHANGED <<nextId, draftExams>>
        ELSE /\ nextId <= MaxIds
             /\ draftExams' = Insert(draftExams, nextId, DraftDoc(title, testNumber, questions))
             /\ nextId' = nextId + 1
             /\ req' = [req EXCEPT ![c] = Reply(r, 200)]
  /\ UNCHANGED <<variant, auth, pdfDrafts, exams, results>>

\* v1: validate, then let draft = await DraftExam.findOne({ title })
PostDraftsFind(c, title, testNumber, questions) ==
  /\ variant = "v1"
  /\ CanStart(c)
  /\ LET hit == {d \in DOMAIN draftExams : draftExams[d].title = title}
         r == NewReq("postDrafts", "save", FindOneId(hit), "",
                     [title |-> title, testNumber |-> testNumber, questions |-> questions],
                     NoDoc)
     IN req' = [req EXCEPT ![c] = IF length(questions) = 0 THEN Reply(r, 400) ELSE r]
  /\ UNCHANGED <<variant, auth, store>>

\* v1: await draft.save(): an update of the document found, or an insert
PostDraftsSave(c) ==
  /\ At_(c, "postDrafts", "save")
  /\ LET r == req[c]
         b == r.body
     IN IF r.id # 0
        THEN \* the document was loaded: save() updates the modified paths by _id
             /\ IF r.id \in DOMAIN draftExams
                THEN /\ draftExams' = [draftExams EXCEPT ![r.id] =
                            [@ EXCEPT !.testNumber = b.testNumber,
                                      !.questions = castArray(b.questions),
                                      !.totalQuestions = length(b.questions)]]
                     /\ req' = [req EXCEPT ![c] = Reply(r, 200)]
                ELSE \* deleted meanwhile: DocumentNotFoundError, no try/catch in v1
                     /\ draftExams' = draftExams
                     /\ req' = [req EXCEPT ![c] = Reply(r, NoResponse)]
             /\ nextId' = nextId
        ELSE /\ nextId <= MaxIds
             /\ draftExams' = Insert(draftExams, nextId,
                                     DraftDoc(b.title, b.testNumber, b.questions))
             /\ nextId' = nextId + 1
             /\ req' = [req EXCEPT ![c] = Reply(r, 200)]
  /\ UNCHANGED <<variant, auth, pdfDrafts, exams, results>>

\* ------------------------------------------------------ PUT /drafts/:id  (v2)
\* validate, then await DraftExam.findByIdAndUpdate(id, {...}): one atomic store call
PutDrafts(c, id, title, testNumber, questions) ==
  /\ variant = "v2"
  /\ CanStart(c)
  /\ LET r == NewReq("putDrafts", "update", id, "", NoDoc, NoDoc)
     IN IF length(questions) = 0
        THEN /\ req' = [req EXCEPT ![c] = Reply(r, 400)]
             /\ draftExams' = draftExams
        ELSE IF id \in DOMAIN draftExams
        THEN /\ draftExams' = [draftExams EXCEPT ![id] = DraftDoc(title, testNumber, questions)]
             /\ req' = [req EXCEPT ![c] = Reply(r, 200)]
        ELSE /\ draftExams' = draftExams
             /\ req' = [req EXCEPT ![c] = Reply(r, 404)]
  /\ UNCHANGED <<variant, auth, nextId, pdfDrafts, exams, results>>

\* ------------------------------------------------------ POST /api/save-bulk-exam  (p3, p4c)
\* p3 refuses an empty list; p4c builds the draft from whatever array it is given
BulkSave(c, title, testNumber, questions) ==
  /\ variant \in {"p3", "p4c"}
  /\ CanStart(c)
  /\ LET r == NewReq("bulk", "save", 0, "", NoDoc, NoDoc)
     IN IF variant = "p3" /\ Len(questions) = 0
        THEN /\ req' = [req EXCEPT ![c] = Reply(r, 400)]
             /\ UNCHANGED <<nextId, draftExams>>
        ELSE /\ nextId <= MaxIds
             /\ draftExams' = Insert(draftExams, nextId, DraftDoc(title, testNumber, questions))
             /\ nextId' = nextId + 1
             /\ req' = [req EXCEPT ![c] = Reply(r, 200)]
  /\ UNCHANGED <<variant, auth, pdfDrafts, exams, results>>

\* ------------------------------------------------------ POST /conduct/:draftId
\* const draft = await DraftExam.findById(req.params.draftId)
ConductFind(c, id) ==
  /\ CanStart(c)
  /\ LET draft == FindById(draftExams, id)
         r == NewReq("conduct", IF variant \in {"v1", "v2"} THEN "guard" ELSE "saveExam",
                     id, "", NoDoc, draft)
     IN req' = [req EXCEPT ![c] =
          IF draft = NoDoc
          THEN \* p5 has no null check: draft.toObject() throws, nothing catches it
               Reply(r, IF variant = "p5" THEN NoResponse ELSE 404)
          ELSE r]
  /\ UNCHANGED <<variant, auth, store>>

\* a guard that would also compare the questions
SameExam_WithQuestions(e, draft) ==
  /\ e.title = draft.title
  /\ variant = "v2" => e.testNumber = draft.testNumber
  /\ e.questions = draft.questions

\* The fields the duplicate-conduct guard compares: v1 title, v2 title and testNumber
SameExam(e, draft) ==
  /\ e.title = draft.title
  /\ variant = "v2" => e.testNumber = draft.testNumber

\* const exists = await Exam.findOne({ title [, testNumber] })
ConductGuard(c) ==
  /\ At_(c, "conduct", "guard")
  /\ LET r == req[c]
         hit == {e \in DOMAIN exams : SameExam(exams[e], r.doc)}
     IN req' = [req EXCEPT ![c] =
          IF FindOneId(hit) # 0 THEN Reply(r, 400) ELSE [r EXCEPT !.pc = "saveExam"]]
  /\ UNCHANGED <<variant, auth, store>>

\* `from' is not a field of the program: it records the draft the Exam was built from
ExamDoc(draft, from) ==
  [title |-> draft.title, testNumber |-> draft.testNumber,
   totalQuestions |-> draft.totalQuestions, questions |-> draft.questions,
   from |-> from]

\* a conduct that would write the Exam with an upsert keyed by title
ConductSave_UpsertByTitle(c) ==
  /\ At_(c, "conduct", "saveExam")
  /\ LET r == req[c]
         hit == {e \in DOMAIN exams : exams[e].title = r.doc.title}
     IN IF hit # {}
        THEN /\ exams' = [exams EXCEPT ![Min(hit)] = ExamDoc(r.doc, r.id)]
             /\ nextId' = nextId
             /\ req' = [req EXCEPT ![c].pc = "deleteDraft"]
        ELSE /\ nextId <= MaxIds
             /\ exams' = Insert(exams, nextId, ExamDoc(r.doc, r.id))
             /\ nextId' = nextId + 1
             /\ req' = [req EXCEPT ![c].pc = "deleteDraft"]
  /\ UNCHANGED <<variant, auth, draftExams, pdfDrafts, results>>

\* a conduct whose first store call would be the delete, the Exam left for later
ConductSave_DeleteFirst(c) ==
  /\ At_(c, "conduct", "saveExam")
  /\ draftExams' = Remove(draftExams, req[c].id)
  /\ req' = [req EXCEPT ![c].pc = "deleteDraft"]
  /\ UNCHANGED <<variant, auth, nextId, pdfDrafts, exams, results>>

\* await exam.save(): v1/v2 build the Exam field by field (fresh _id);
\* p3/p5 spread draft.toObject(), so the Exam carries the draft's _id
ConductSave(c) ==
  /\ At_(c, "conduct", "saveExam")
  /\ LET r == req[c]
     IN IF variant \in {"v1", "v2"}
        THEN /\ nextId <= MaxIds
             /\ exams' = Insert(exams, nextId, ExamDoc(r.doc, r.id))
             /\ nextId' = nextId + 1
             /\ req' = [req EXCEPT ![c].pc = "deleteDraft"]
        ELSE /\ nextId' = nextId
             /\ IF r.id \in DOMAIN exams
                THEN \* duplicate _id: the insert is refused
                     /\ exams' = exams
                     /\ req' = [req EXCEPT ![c] =
                                  Reply(r, IF variant = "p3" THEN 500 ELSE NoResponse)]
                ELSE /\ exams' = Insert(exams, r.id, ExamDoc(r.doc, r.id))
                     /\ req' = [req EXCEPT ![c].pc = "deleteDraft"]
  /\ UNCHANGED <<variant, auth, draftExams, pdfDrafts, results>>

\* await DraftExam.findByIdAndDelete(req.params.draftId)
ConductDelete(c) ==
  /\ At_(c, "conduct", "deleteDraft")
  /\ draftExams' = Remove(draftExams, req[c].id)
  /\ req' = [req EXCEPT ![c] = Reply(req[c], 200)]
  /\ UNCHANGED <<variant, auth, nextId, pdfDrafts, exams, results>>

\* await DraftExam.findByIdAndDelete(...) rejects (the database connection is
\* lost): v2 and p3 fall into their catch and answer 500, v1 and p5 have none
ConductDeleteFails(c) ==
  /\ At_(c, "conduct", "deleteDraft")
  /\ req' = [req EXCEPT ![c] =
               Reply(req[c], IF variant \in {"v2", "p3"} THEN 500 ELSE NoResponse)]
  /\ UNCHANGED <<variant, auth, store>>

\* ------------------------------------------------------ POST /api/exam/pdf-upload  (v2, p5)
\* `n' is the number of questions parseQuestionsFromText returns for the uploaded
\* file; every parsed question starts with correctAnswer null
PdfUpload(c, title, testNumber, n) ==
  /\ variant \in {"v2", "p5"}
  /\ CanStart(c)
  /\ LET r == NewReq("pdfUpload", "save", 0, "", NoDoc, NoDoc)
     IN IF n = 0
        THEN /\ req' = [req EXCEPT ![c] = Reply(r, IF variant = "v2" THEN 400 ELSE 422)]
             /\ UNCHANGED <<nextId, pdfDrafts>>
        ELSE /\ nextId <= MaxIds
             /\ pdfDrafts' = Insert(pdfDrafts, nextId,
                   [title |-> title, testNumber |-> testNumber,
                    questions |-> [i \in 1..n |-> Null]])
             /\ nextId' = nextId + 1
             /\ req' = [req EXCEPT ![c] = Reply(r, 200)]
  /\ UNCHANGED <<variant, auth, draftExams, exams, results>>

\* ------------------------------------------------------ PATCH /api/pdf-draft/:id/set-answer
NoIndex == MaxQ + 2                \* a body without questionIndex
\* validate, then const draft = await PdfQuestionDraft.findById(id), then the
\* bounds check and the assignment to the loaded document
SetAnswerFind(c, id, questionIndex, correctAnswer) ==
  /\ variant \in {"v2", "p5"}
  /\ CanStart(c)
  /\ LET r == NewReq("setAnswer", "save", id, "", NoDoc, NoDoc)
         draft == FindById(pdfDrafts, id)
         inRange == draft # NoDoc /\ questionIndex \in 0..(Len(draft.questions) - 1)
     IN req' = [req EXCEPT ![c] =
          IF variant = "v2"
          THEN IF questionIndex = NoIndex \/ Falsy(correctAnswer) THEN Reply(r, 400)
               ELSE IF draft = NoDoc THEN Reply(r, 404)
               ELSE IF ~inRange THEN Reply(r, 400)
               ELSE [r EXCEPT !.body = [index |-> questionIndex,
                                        value |-> toUpperCase(correctAnswer)]]
          ELSE IF draft = NoDoc THEN Reply(r, 404)
               \* p5: questions[questionIndex] or correctAnswer undefined: TypeError, uncaught
               ELSE IF ~inRange \/ ~IsString(correctAnswer) THEN Reply(r, NoResponse)
               ELSE [r EXCEPT !.body = [index |-> questionIndex,
                                        value |-> toUpperCase(correctAnswer)]]]
  /\ UNCHANGED <<variant, auth, store>>

\* await draft.save(): $set of questions.<index>.correctAnswer on the document's _id
SetAnswerSave(c) ==
  /\ At_(c, "setAnswer", "save")
  /\ LET r == req[c]
     IN IF r.id \in DOMAIN pdfDrafts
        THEN /\ pdfDrafts' = [pdfDrafts EXCEPT ![r.id].questions[r.body.index + 1] = r.body.value]
             /\ req' = [req EXCEPT ![c] = Reply(r, 200)]
        ELSE \* the draft is gone: DocumentNotFoundError
             /\ pdfDrafts' = pdfDrafts
             /\ req' = [req EXCEPT ![c] = Reply(r, IF variant = "v2" THEN 500 ELSE NoResponse)]
  /\ UNCHANGED <<variant, auth, nextId, draftExams, exams, results>>

\* ------------------------------------------------------ POST /api/pdf-draft/:id/finalize
\* pdfDraft.questions.some(q => !q.correctAnswer)
Missing(questions) == \E i \in 1..Len(questions) : Falsy(questions[i])

\* const pdfDraft = await PdfQuestionDraft.findById(id), then the coverage check (v2 only)
FinalizeFind(c, id) ==
  /\ variant \in {"v2", "p5"}
  /\ CanStart(c)
  /\ LET pdfDraft == FindById(pdfDrafts, id)
         r == NewReq("finalize", "saveDraft", id, "", NoDoc, pdfDraft)
     IN req' = [req EXCEPT ![c] =
          IF variant = "v2"
          THEN IF pdfDraft = NoDoc THEN Reply(r, 404)
               ELSE IF Missing(pdfDraft.questions) THEN Reply(r, 400)
               ELSE r
          ELSE \* p5: pdfDraft.title of null throws, nothing catches it
               IF pdfDraft = NoDoc THEN Reply(r, NoResponse) ELSE r]
  /\ UNCHANGED <<variant, auth, store>>

\* await draftExam.save(): the PDF draft becomes a DraftExam
FinalizeSave(c) ==
  /\ At_(c, "finalize", "saveDraft")
  /\ nextId <= MaxIds
  /\ LET d == req[c].doc
     IN draftExams' = Insert(draftExams, nextId, DraftDoc(d.title, d.testNumber, d.questions))
  /\ nextId' = nextId + 1
  /\ req' = [req EXCEPT ![c].pc = "deletePdf"]
  /\ UNCHANGED <<variant, auth, pdfDrafts, exams, results>>

\* await PdfQuestionDraft.findByIdAndDelete(id)
FinalizeDelete(c) ==
  /\ At_(c, "finalize", "deletePdf")
  /\ pdfDrafts' = Remove(pdfDrafts, req[c].id)
  /\ req' = [req EXCEPT ![c] = Reply(req[c], 200)]
  /\ UNCHANGED <<variant, auth, nextId, draftExams, exams, results>>

\* await PdfQuestionDraft.findByIdAndDelete(id) rejects: v2 answers 500 from its
\* catch, p5 has none
FinalizeDeleteFails(c) ==
  /\ At_(c, "finalize", "deletePdf")
  /\ req' = [req EXCEPT ![c] = Reply(req[c], IF variant = "v2" THEN 500 ELSE NoResponse)]
  /\ UNCHANGED <<variant, auth, store>>

\* ------------------------------------------------------ POST /submit-exam
\* a comparison that would keep the letters' case
Matches_Exact(correctAnswer, answer) == correctAnswer = answer

\* v1, v2, p2: q.correctAnswer.toLowerCase() === answers[i]?.toLowerCase()
\* p3, p5, p4a: q.correctAnswer === answers[i]
Matches(correctAnswer, answer) ==
  IF variant \in {"v1", "v2", "p2"}
  THEN IsString(answer) /\ toLowerCase(correctAnswer) = toLowerCase(answer)
  ELSE correctAnswer = answer

\* the forEach throws a TypeError: answers is no array, or (v1, v2, p2) toLowerCase is
\* called on a correctAnswer that is null or undefined
ScoreThrows(questions, answers) ==
  /\ Len(questions) > 0
  /\ \/ answers = NotArray
     \/ /\ variant \in {"v1", "v2", "p2"}
        /\ \E i \in 1..Len(questions) : ~IsString(questions[i])

\* exam.questions.forEach((q, i) => { if (...) correct++ })
RECURSIVE CountFrom(_, _, _)
CountFrom(questions, answers, i) ==
  IF i > Len(questions) THEN 0
  ELSE (IF Matches(questions[i], At(answers, i)) THEN 1 ELSE 0)
       + CountFrom(questions, answers, i + 1)

Unset == 0 - 1                     \* a numeric field the handler never assigns
ResultDoc(exam, examId, who, name, answers) ==
  LET correct == CountFrom(exam.questions, answers, 1)
  IN [studentMobile |-> who, studentName |-> name, examId |-> examId, correct |-> correct,
      wrong |-> IF variant \in {"p5", "p4a"} THEN Unset ELSE exam.totalQuestions - correct,
      score |-> IF variant = "p5" THEN Unset ELSE correct,
      total |-> exam.totalQuestions, answers |-> answers]

\* validate (v1, p2), then const exam = await Exam.findById(examId); v1, v2, p2,
\* p5 and p4a go on to score; p3 looks for an earlier Result first.  who and name
\* are the identity the handler uses: body fields in v1 and v2, req.user elsewhere
SubmitFind(c, examId, who, name, answers) ==
  /\ CanStart(c)
  /\ LET exam == FindById(exams, examId)
         r == [NewReq("submit", "saveResult", examId, who, NoDoc, NoDoc) EXCEPT !.name = name]
         uncaught == IF variant = "v2" THEN 500 ELSE NoResponse
     IN req' = [req EXCEPT ![c] =
          IF variant \in {"v1", "p2"} /\ answers = NotArray THEN Reply(r, 400)
          ELSE IF exam = NoDoc
               THEN Reply(r, IF variant \in {"p5", "p4a"} THEN NoResponse ELSE 404)
          ELSE IF variant = "p3"
               THEN [r EXCEPT !.pc = "findResult", !.body = answers, !.doc = exam]
          ELSE IF ScoreThrows(exam.questions, answers) THEN Reply(r, uncaught)
          ELSE [r EXCEPT !.doc = ResultDoc(exam, examId, who, name, answers)]]
  /\ UNCHANGED <<variant, auth, store>>

\* a handler that would score without looking for an earlier Result
SubmitFindResult_NoLookup(c) ==
  /\ At_(c, "submit", "findResult")
  /\ LET r == req[c]
     IN req' = [req EXCEPT ![c] =
          IF ScoreThrows(r.doc.questions, r.body) THEN Reply(r, 500)
          ELSE [r EXCEPT !.pc = "saveResult", !.body = NoDoc,
                         !.doc = ResultDoc(r.doc, r.id, r.who, r.name, r.body)]]
  /\ UNCHANGED <<variant, auth, store>>

\* p3: const already = await Result.findOne({ studentMobile: req.user.mobile, examId })
SubmitFindResult(c) ==
  /\ At_(c, "submit", "findResult")
  /\ LET r == req[c]
         hit == {x \in DOMAIN results :
                   results[x].studentMobile = r.who /\ results[x].examId = r.id}
     IN req' = [req EXCEPT ![c] =
          IF FindOneId(hit) # 0 THEN Reply(r, 400)
          ELSE IF ScoreThrows(r.doc.questions, r.body) THEN Reply(r, 500)
          ELSE [r EXCEPT !.pc = "saveResult", !.body = NoDoc,
                         !.doc = ResultDoc(r.doc, r.id, r.who, r.name, r.body)]]
  /\ UNCHANGED <<variant, auth, store>>

\* await result.save()
SubmitSave(c) ==
  /\ At_(c, "submit", "saveResult")
  /\ nextId <= MaxIds
  /\ results' = Insert(results, nextId, req[c].doc)
  /\ nextId' = nextId + 1
  /\ req' = [req EXCEPT ![c] = Reply(req[c], 200)]
  /\ UNCHANGED <<variant, auth, draftExams, pdfDrafts, exams>>

\* ------------------------------------------------------ inputs
\* correctAnswer values a client may send in a manual or bulk question
BodyAnswers == {"A", Undef}
QuestionLists == SeqsUpTo(BodyAnswers, MaxQ)
ShortQuestionLists == SeqsUpTo({"A", Null}, 1)
\* (title, testNumber) of a request body
Keys == {<<"t1", 1>>, <<"t1", 2>>, <<"t2", 1>>}
\* correctAnswer values a client may send to set-answer
SetAnswerInputs == {"a", Undef}
IndexInputs == (0 - 1)..MaxQ \cup {NoIndex}
\* submitted answers: entries of a JSON array (JSON has no undefined)
SubmitEntries == {"A", "a", Null}
AnswerLists == SeqsUpTo(SubmitEntries, MaxQ + 1) \cup {NotArray}
FewAnswerLists == {<< >>, <<"A">>, <<Null>>, <<"A", "A">>}

\* ------------------------------------------------------ the handlers' steps
\* manual drafts: POST /drafts, PUT /drafts/:id, POST /questions/bulk
Drafts(C, K, Q) ==
  \/ \E c \in C, k \in K, q \in Q : PostDraftsCreate(c, k[1], k[2], q)
  \/ \E c \in C, k \in K, q \in Q : PostDraftsFind(c, k[1], k[2], q)
  \/ \E c \in C : PostDraftsSave(c)
  \/ \E c \in C, i \in Ids, k \in K, q \in Q : PutDrafts(c, i, k[1], k[2], q)

Bulk(C, K, Q) ==
  \E c \in C, k \in K, q \in Q : BulkSave(c, k[1], k[2], q)

\* POST /conduct/:draftId
ConductFirst(C) ==
  \E c \in C, i \in Ids : ConductFind(c, i)

ConductRest(C) ==
  \/ \E c \in C : ConductSave(c)
  \/ \E c \in C : ConductDelete(c)

\* the PDF pipeline: upload, set-answer, finalize
Pdf(C, K) ==
  \/ \E c \in C, k \in K, n \in 0..MaxQ : PdfUpload(c, k[1], k[2], n)
  \/ \E c \in C, i \in Ids, x \in IndexInputs, a \in SetAnswerInputs : SetAnswerFind(c, i, x, a)
  \/ \E c \in C : SetAnswerSave(c)
  \/ \E c \in C, i \in Ids : FinalizeFind(c, i)
  \/ \E c \in C : FinalizeSave(c)
  \/ \E c \in C : FinalizeDelete(c)

\* POST /submit
Submit(C, M, A) ==
  \/ \E c \in C, i \in Ids, m \in M, a \in A : SubmitFind(c, i, m, "n1", a)
  \/ \E c \in C : SubmitSave(c)

SubmitDup(C) ==
  \E c \in C : SubmitFindResult(c)

\* ------------------------------------------------------ specifications
\* backend/server.js, both programs: authoring and conduct, requests served
\* one after the other
Next ==
  \/ Drafts({"c1"}, Keys, ShortQuestionLists)
  \/ Pdf({"c1"}, {<<"t1", 1>>})
  \/ ConductFirst({"c1"})
  \/ \E c \in {"c1"} : ConductGuard(c)
  \/ ConductRest({"c1"})

Spec == Init /\ [][Next]_vars

\* unnamed/part_003: bulk drafts, conduct, authenticated submit
NextP3 ==
  \/ Bulk({"c1"}, {<<"t1", 1>>}, QuestionLists)
  \/ ConductFirst({"c1"})
  \/ ConductRest({"c1"})
  \/ Submit({"c1"}, Mobiles, FewAnswerLists)
  \/ SubmitDup({"c1"})

InitP3 == Start("p3")

SpecP3 == InitP3 /\ [][NextP3]_vars

\* unnamed/part_005: PDF drafts, conduct, authenticated submit
NextP5 ==
  \/ Pdf({"c1"}, {<<"t1", 1>>})
  \/ ConductFirst({"c1"})
  \/ ConductRest({"c1"})
  \/ Submit({"c1"}, {"m1"}, FewAnswerLists)

InitP5 == Start("p5")

SpecP5 == InitP5 /\ [][NextP5]_vars

\* backend/server.js: two connections whose handlers interleave at every await
NextRace ==
  \/ Drafts(Clients, {<<"t1", 1>>}, {<<"A">>})
  \/ ConductFirst(Clients)
  \/ \E c \in Clients : ConductGuard(c)
  \/ ConductRest(Clients)

SpecRace == Init /\ [][NextRace]_vars

\* unnamed/part_003: two connections whose handlers interleave at every await
NextRaceP3 ==
  \/ Bulk(Clients, {<<"t1", 1>>}, {<<"A">>})
  \/ ConductFirst(Clients)
  \/ ConductRest(Clients)
  \/ Submit(Clients, Mobiles, {<<"A">>})
  \/ SubmitDup(Clients)

SpecRaceP3 == InitP3 /\ [][NextRaceP3]_vars

\* backend/server.js, scoring: one Exam was conducted from draft 1, any
\* answer key a draft can carry; submissions follow
ScoreKeys == SeqsUpTo({"A", "b", Undef}, MaxQ) \cup {<<"A", "B", "C", "D">>}
ScoreAnswerLists == AnswerLists \cup {<<"A", "b", "C", "X">>}

InitScore ==
  /\ variant \in {"v1", "v2"}
  /\ nextId = 3
  /\ draftExams = << >>
  /\ pdfDrafts = << >>
  /\ \E q \in ScoreKeys \ {<< >>} : exams = Insert(<< >>, 2, ExamDoc(DraftDoc("t1", 1, q), 1))
  /\ results = << >>
  /\ req = [c \in Clients |->
              IF c = "c1" THEN Reply(NewReq("conduct", "deleteDraft", 1, "", NoDoc, NoDoc), 200)
              ELSE Idle]
  /\ students = << >>
  /\ issued = {}
  /\ now = 0

NextScore == Submit({"c1"}, {"m1"}, ScoreAnswerLists)

SpecScore == InitScore /\ [][NextScore]_vars

\* ====================================================== students and login
\* a JSON number sent where the form sends a string
Num7 == "#7"
typeofString(v) == v \notin {Null, Undef, Num7}
\* Mongoose casts a value to the schema type String when the document is built
String(v) == IF v = Num7 THEN "7" ELSE v
\* String.prototype.trim; optional chaining passes undefined through
trim(s) == CASE s = " m1" -> "m1" [] s = " pw" -> "pw" [] OTHER -> s
\* bcrypt: the hash of a string, and compare(s, hash)
bcryptHash(p) == "$2a$" \o p
bcryptCompare(p, h) == h = bcryptHash(p)

StudentDoc(name, mobile, password) == [name |-> name, mobile |-> mobile, password |-> password]
WithMobile(mobile) == {i \in DOMAIN students : students[i].mobile = mobile}

\* the response carries a JSON body
Answer(r, code, json) == [Reply(r, code) EXCEPT !.body = json]
Error(msg) == [error |-> msg]

\* ------------------------------------------------------ POST /students
\* validate, then await Student.findOne({ mobile })
RegisterFind(c, name, mobile, password) ==
  /\ variant \in {"v1", "v2", "p2", "p3"}
  /\ CanStart(c)
  /\ LET raw == StudentDoc(name, mobile, password)
         r == NewReq("register", "save", 0, mobile, raw, NoDoc)
         trims == variant = "p2"
         n == IF trims THEN trim(name) ELSE name
         m == IF trims THEN trim(mobile) ELSE mobile
         p == IF trims THEN trim(password) ELSE password
     IN IF trims /\ Num7 \in {name, mobile, password}
        THEN \* (7).trim is not a function: thrown inside the try
             req' = [req EXCEPT ![c] = Answer(r, 500, Error("Server error"))]
        ELSE IF Falsy(n) \/ Falsy(m) \/ Falsy(p)
        THEN req' = [req EXCEPT ![c] = Answer(r, 400, Error("required"))]
        ELSE IF FindOneId(WithMobile(m)) # 0
        THEN req' = [req EXCEPT ![c] = Answer(r, 409, Error("Mobile exists"))]
        ELSE req' = [req EXCEPT ![c] = [r EXCEPT !.doc = StudentDoc(n, m, p)]]
  /\ UNCHANGED <<variant, store, auth>>

\* (p3: await bcrypt.hash) then await student.save(); mobile has a unique index
RegisterSave(c) ==
  /\ At_(c, "register", "save")
  /\ LET r == req[c]
         d == r.doc
     IN IF variant = "p3" /\ ~typeofString(d.password)
        THEN \* bcrypt.hash rejects: Illegal arguments
             /\ req' = [req EXCEPT ![c] = Answer(r, 500, Error("Registration failed"))]
             /\ UNCHANGED <<nextId, students>>
        ELSE IF WithMobile(d.mobile) # {}
        THEN \* E11000 duplicate key
             /\ req' = [req EXCEPT ![c] =
                          IF variant = "p2" THEN Answer(r, 409, Error("Mobile exists"))
                          ELSE Answer(r, 500, Error("Registration failed"))]
             /\ UNCHANGED <<nextId, students>>
        ELSE /\ nextId <= MaxIds
             /\ students' = Insert(students, nextId,
                               [d EXCEPT !.password = IF variant = "p3" THEN bcryptHash(d.password)
                                                      ELSE String(d.password)])
             /\ nextId' = nextId + 1
             /\ req' = [req EXCEPT ![c] = Answer(r, 200, [message |-> "Student added"])]
  /\ UNCHANGED <<variant, draftExams, pdfDrafts, exams, results, issued, now>>

\* ------------------------------------------------------ POST /student-login
\* days; jwt.sign(..., { expiresIn: '7d' })
ExpiresIn == 7
NoExpiry == 0 - 1
\* the credentials login has signed are bounded to keep the state space finite
MaxTokens == 2
\* the payload jwt.sign builds (iat is added by the library) and its signature
Token(student, t, exp) ==
  [mobile |-> student.mobile, name |-> student.name, iat |-> t, exp |-> exp, sig |-> "ok"]

\* what POST /student-login answers to (mobile, password) when the Student
\* collection is studs and the clock shows t; p4a signs without expiresIn
LoginOutcome(studs, t, mobile, password) ==
  LET hit == {i \in DOMAIN studs : studs[i].mobile = mobile}
      student == IF hit = {} THEN NoDoc ELSE studs[Min(hit)]
      ok(tok) == IF variant \in {"v1", "v2"}
                 THEN [status |-> 200, body |-> [name |-> student.name, mobile |-> student.mobile]]
                 ELSE [status |-> 200, body |-> [token |-> tok, name |-> student.name,
                                                 mobile |-> student.mobile]]
  IN IF variant \in {"v1", "v2", "p2"}
     THEN IF Falsy(mobile) \/ Falsy(password)
          THEN [status |-> 400, body |-> Error("Mobile and password required")]
          ELSE IF student = NoDoc
          THEN [status |-> 404, body |-> Error("Invalid credentials")]
          ELSE IF student.password # password
          THEN [status |-> 401, body |-> Error("Invalid credentials")]
          ELSE ok(Token(student, t, t + ExpiresIn))
     ELSE IF student = NoDoc
          THEN [status |-> 401, body |-> Error("Invalid mobile or password")]
          ELSE IF ~typeofString(password)
          THEN \* bcrypt.compare rejects: Illegal arguments; caught by p3, not by p4a
               IF variant = "p4a" THEN [status |-> NoResponse, body |-> NoDoc]
               ELSE [status |-> 500, body |-> Error("Login failed")]
          ELSE IF ~bcryptCompare(password, student.password)
          THEN [status |-> 401, body |-> Error("Invalid mobile or password")]
          ELSE ok(Token(student, t, IF variant = "p4a" THEN NoExpiry ELSE t + ExpiresIn))

Signed(out) == IF out.status = 200 /\ variant \notin {"v1", "v2"} THEN {out.body.token} ELSE {}

Login(c, mobile, password) ==
  /\ variant \in {"v1", "v2", "p2", "p3", "p4a"}
  /\ CanStart(c)
  /\ LET out == LoginOutcome(students, now, mobile, password)
     IN /\ Cardinality(issued \cup Signed(out)) <= MaxTokens
        /\ issued' = issued \cup Signed(out)
        /\ req' = [req EXCEPT ![c] =
                     Answer(NewReq("login", "idle", 0, mobile, NoDoc, NoDoc), out.status, out.body)]
  /\ UNCHANGED <<variant, store, students, now>>

\* ------------------------------------------------------ DELETE /students/:id
DeleteStudent(c, id) ==
  /\ variant \in {"v1", "v2", "p2"}
  /\ CanStart(c)
  /\ LET r == NewReq("deleteStudent", "idle", id, "", NoDoc, NoDoc)
     IN IF id \in DOMAIN students
        THEN /\ students' = Remove(students, id)
             /\ req' = [req EXCEPT ![c] = Answer(r, 200, [message |-> "Student deleted"])]
        ELSE /\ students' = students
             /\ req' = [req EXCEPT ![c] = Answer(r, 404, Error("Student not found"))]
  /\ UNCHANGED <<variant, store, issued, now>>

\* ------------------------------------------------------ student specifications
Names == {"n1", "n2"}
LoginKeys == {"m1", " m1"}
Passwords == {"pw", " pw", Num7, Undef}

Students(C, N, M, P) ==
  \/ \E c \in C, n \in N, m \in M, p \in P : RegisterFind(c, n, m, p)
  \/ \E c \in C : RegisterSave(c)
  \/ \E c \in C, m \in M, p \in P : Login(c, m, p)

Unregister(C) == \E c \in C, id \in Ids : DeleteStudent(c, id)

InitStudents == \E v \in {"v1", "v2", "p2", "p3"} : Start(v)
NextStudents == Students({"c1"}, Names, LoginKeys, Passwords) \/ Unregister({"c1"})
SpecStudents == InitStudents /\ [][NextStudents]_vars

\* two clients register at the same time
InitStudentsRace == \E v \in {"v1", "v2", "p2"} : Start(v)
NextStudentsRace == Students(Clients, {"n1"}, {"m1", " m1"}, {"pw"}) \/ Unregister({"c1"})
SpecStudentsRace == InitStudentsRace /\ [][NextStudentsRace]_vars

\* ====================================================== bearer tokens
\* POST /students of p4a: no validation, no lookup, no try/catch
RegisterHashed(c, name, mobile, password) ==
  /\ variant = "p4a"
  /\ CanStart(c)
  /\ LET r == NewReq("register", "idle", 0, mobile, NoDoc, NoDoc)
     IN IF ~typeofString(password) \/ WithMobile(mobile) # {}
        THEN \* bcrypt.hash or save() rejects and nothing is sent
             /\ req' = [req EXCEPT ![c] = Reply(r, NoResponse)]
             /\ UNCHANGED <<nextId, students>>
        ELSE /\ nextId <= MaxIds
             /\ students' = Insert(students, nextId, StudentDoc(name, mobile, bcryptHash(password)))
             /\ nextId' = nextId + 1
             /\ req' = [req EXCEPT ![c] = Answer(r, 200, [success |-> TRUE])]
  /\ UNCHANGED <<variant, draftExams, pdfDrafts, exams, results, issued, now>>

\* what a request can put in the Authorization header
NoToken == [mobile |-> "", name |-> "", iat |-> 0, exp |-> NoExpiry, sig |-> "none"]
Garbage == [NoToken EXCEPT !.sig = "malformed"]
Forged(tok) == [tok EXCEPT !.sig = "bad"]
Extended(tok) == [tok EXCEPT !.exp = NoExpiry, !.sig = "bad"]
Credentials == {NoToken, Garbage} \cup issued \cup {Forged(t) : t \in issued}
                 \cup {Extended(t) : t \in issued}

\* a guard that decodes the payload without checking the signature
verify_Unsigned(tok, t) == tok.sig \in {"ok", "bad"} /\ (tok.exp = NoExpiry \/ t < tok.exp)

\* jwt.verify(token, JWT_SECRET): the signature, then the exp claim if there is one
verify(tok, t) == tok.sig = "ok" /\ (tok.exp = NoExpiry \/ t < tok.exp)

\* a guard that also looks the student up
Guard_StudentLookup(tok) ==
  IF tok.sig = "none" THEN 401
  ELSE IF ~verify(tok, now) \/ WithMobile(tok.mobile) = {} THEN (IF variant = "p2" THEN 403 ELSE 401)
  ELSE 0

\* authenticate / authenticateToken: the status it answers with, 0 when it calls next()
Guard(tok) ==
  IF tok.sig = "none" THEN 401
  ELSE IF ~verify(tok, now) THEN (IF variant = "p2" THEN 403 ELSE 401)
  ELSE 0

\* POST /submit-exam behind the guard; req.user is the token's payload
AuthSubmit(c, tok, examId, answers) ==
  IF Guard(tok) # 0
  THEN /\ CanStart(c)
       /\ req' = [req EXCEPT ![c] =
                    Answer(NewReq("submit", "idle", examId, "", NoDoc, NoDoc), Guard(tok),
                           Error("Unauthorized"))]
       /\ UNCHANGED <<variant, store, auth>>
  ELSE SubmitFind(c, examId, tok.mobile, tok.name, answers)

\* time passes
MaxNow == 8
Tick ==
  /\ now < MaxNow
  /\ now' = now + 1
  /\ UNCHANGED <<variant, store, req, students, issued>>

\* an Exam has been conducted (p2, p3); p4a has no route that creates one
InitToken ==
  \E v \in {"p2", "p3", "p4a"} :
    /\ variant = v
    /\ nextId = IF v = "p4a" THEN 1 ELSE 2
    /\ draftExams = << >>
    /\ pdfDrafts = << >>
    /\ exams = IF v = "p4a" THEN << >>
               ELSE Insert(<< >>, 1, ExamDoc(DraftDoc("t1", 1, <<"A">>), 1))
    /\ results = << >>
    /\ req = [c \in Clients |-> Idle]
    /\ students = << >>
    /\ issued = {}
    /\ now = 0

NextToken ==
  \/ Students({"c1"}, {"n1"}, {"m1"}, {"pw"})
  \/ \E c \in {"c1"} : RegisterHashed(c, "n1", "m1", "pw")
  \/ Unregister({"c1"})
  \/ Tick
  \/ \E c \in {"c1"}, tok \in Credentials, a \in {<<"A">>} : AuthSubmit(c, tok, 1, a)
  \/ \E c \in {"c1"} : SubmitFindResult(c) \/ SubmitSave(c)

SpecToken == InitToken /\ [][NextToken]_vars

\* ====================================================== exam delivery
\* a question document whose correctAnswer path was excluded from the projection
Hidden == "#hidden"
\* .select('-questions.correctAnswer')
Selected(exam) == [exam EXCEPT !.questions = [i \in DOMAIN exam.questions |-> Hidden]]

\* GET /active-exams: res.json(await Exam.find().sort({ conductedAt: -1 })), no guard
GetActiveExams(c) ==
  /\ variant \in {"p2", "p3"}
  /\ CanStart(c)
  /\ req' = [req EXCEPT ![c] =
               Answer(NewReq("activeExams", "idle", 0, "", NoDoc, NoDoc), 200, [exams |-> exams])]
  /\ UNCHANGED <<variant, store, auth>>

\* GET /exam/:id: p3 behind the guard and with the projection, p2 with neither
GetExam(c, tok, id) ==
  /\ variant \in {"p2", "p3"}
  /\ CanStart(c)
  /\ LET r == NewReq("getExam", "idle", id, "", NoDoc, NoDoc)
         exam == FindById(exams, id)
     IN req' = [req EXCEPT ![c] =
          IF variant = "p3" /\ Guard(tok) # 0 THEN Answer(r, Guard(tok), Error("Unauthorized"))
          ELSE IF exam = NoDoc THEN Answer(r, 404, Error("Exam not found"))
          ELSE Answer(r, 200, [exams |-> Insert(<< >>, id,
                                 IF variant = "p3" THEN Selected(exam) ELSE exam)])]
  /\ UNCHANGED <<variant, store, auth>>

\* one Exam has been conducted; its answer key is any non-empty list of letters
InitDelivery ==
  \E v \in {"p2", "p3"}, q \in SeqsUpTo({"A", "B"}, MaxQ) \ {<< >>} :
    /\ variant = v
    /\ nextId = 2
    /\ draftExams = << >>
    /\ pdfDrafts = << >>
    /\ exams = Insert(<< >>, 1, ExamDoc(DraftDoc("t1", 1, q), 1))
    /\ results = << >>
    /\ req = [c \in Clients |-> Idle]
    /\ students = << >>
    /\ issued = {}
    /\ now = 0

NextDelivery ==
  \/ Students({"c1"}, {"n1"}, {"m1"}, {"pw"})
  \/ \E c \in {"c1"} : GetActiveExams(c)
  \/ \E c \in {"c1"}, tok \in {NoToken} \cup issued, id \in Ids : GetExam(c, tok, id)

SpecDelivery == InitDelivery /\ [][NextDelivery]_vars

\* bulk intake of the third program of part_004
InitP4c == Start("p4c")
NextP4c == Bulk({"c1"}, Keys, QuestionLists)
SpecP4c == InitP4c /\ [][NextP4c]_vars

\* ====================================================== PDF text extraction
\* the lines a PDF's text is made of: a numbered line, two option lines (the
\* option test ignores case), a line of running text, an empty line
NumberedLines == {"1. q"}
OptionLines == {"A) x", "b) y"}
Lines == NumberedLines \cup OptionLines \cup {"note", ""}
\* line.replace(/^\d+\.\s*/, '')
Stem(line) == IF line = "1. q" THEN "q" ELSE line

\* a filter that would keep questions with two options
Keeps_TwoOptions(q) == Len(q.options) >= 2

\* questions.filter(q => q.options.length >= 3)
Keeps(q) == Len(q.options) >= 3

\* the for loop over the non-empty lines: `questions' are the blocks closed
\* so far, `current' the block being collected (NoDoc for null)
RECURSIVE ParseFrom(_, _, _, _)
ParseFrom(lines, i, questions, current) ==
  LET closed == IF current = NoDoc THEN questions ELSE Append(questions, current)
  IN IF i > Len(lines) THEN closed
     ELSE IF lines[i] \in NumberedLines
     THEN ParseFrom(lines, i + 1, closed, [questionText |-> Stem(lines[i]), options |-> << >>])
     ELSE IF lines[i] \in OptionLines
     THEN ParseFrom(lines, i + 1, questions,
                    IF current = NoDoc THEN current
                    ELSE [current EXCEPT !.options = Append(@, lines[i])])
     ELSE IF current # NoDoc /\ Len(current.options) = 0
     THEN ParseFrom(lines, i + 1, questions,
                    [current EXCEPT !.questionText = @ \o " " \o lines[i]])
     ELSE ParseFrom(lines, i + 1, questions, current)

NonEmpty(line) == line # ""
\* a parser whose result array would be shared by all calls and outlive them
parseQuestionsFromText_Shared(text) ==
  LET out == SelectSeq(ParseFrom(SelectSeq([i \in DOMAIN text |-> trim(text[i])], NonEmpty),
                                 1, << >>, NoDoc),
                       Keeps)
  IN IF pdfDrafts = << >> THEN out ELSE out \o out

\* parseQuestionsFromText(rawText), rawText given as its lines
parseQuestionsFromText(text) ==
  SelectSeq(ParseFrom(SelectSeq([i \in DOMAIN text |-> trim(text[i])], NonEmpty),
                      1, << >>, NoDoc),
            Keeps)

\* POST /api/exam/pdf-upload, v2: await pdfParse(...) has produced the text;
\* the questions are parsed and, unless there is none, draft.save() is issued
UploadParse(c, title, testNumber, text) ==
  /\ variant = "v2"
  /\ CanStart(c)
  /\ LET r == NewReq("pdfUpload", "save", 0, "",
                     [title |-> title, testNumber |-> testNumber, text |-> text],
                     [questions |-> parseQuestionsFromText(text)])
     IN req' = [req EXCEPT ![c] =
          IF Len(r.doc.questions) = 0 THEN Answer(r, 400, Error("No questions parsed")) ELSE r]
  /\ UNCHANGED <<variant, auth, store>>

\* await draft.save(): every question is stored with correctAnswer null
UploadSave(c) ==
  /\ At_(c, "pdfUpload", "save")
  /\ nextId <= MaxIds
  /\ LET r == req[c]
     IN /\ pdfDrafts' = Insert(pdfDrafts, nextId,
              [title |-> r.body.title, testNumber |-> r.body.testNumber,
               questions |-> [i \in 1..Len(r.doc.questions) |-> Null]])
        /\ req' = [req EXCEPT ![c] = Answer(r, 200, [questionCount |-> Len(r.doc.questions)])]
  /\ nextId' = nextId + 1
  /\ UNCHANGED <<variant, auth, draftExams, exams, results>>

\* texts: every text of up to MaxShort lines, and every text of up to MaxLines
\* lines made of numbered lines and one kind of option line
MaxShort == 5
MaxLines == 7
Texts == SeqsUpTo(Lines, MaxShort) \cup SeqsUpTo({"1. q", "A) x"}, MaxLines)

InitV2 == Start("v2")
NextParse ==
  \/ \E c \in {"c1"}, text \in Texts : UploadParse(c, "t1", 1, text)
  \/ \E c \in {"c1"} : UploadSave(c)
SpecParse == InitV2 /\ [][NextParse]_vars

\* two uploads in flight together
FewTexts == SeqsUpTo({"1. q", "A) x", "b) y"}, MaxShort)
NextParseTwo ==
  \/ \E c \in Clients, text \in FewTexts : UploadParse(c, "t1", 1, text)
  \/ \E c \in Clients : UploadSave(c)
SpecParseTwo == InitV2 /\ [][NextParseTwo]_vars

\* the PDF pipeline of v2 up to the Exam, with any letter given to set-answer
AnyLetters == {"a", "x"}
NextLetters ==
  \/ \E c \in {"c1"}, n \in 1..MaxQ : PdfUpload(c, "t1", 1, n)
  \/ \E c \in {"c1"}, i \in Ids, x \in 0..(MaxQ - 1), a \in AnyLetters : SetAnswerFind(c, i, x, a)
  \/ \E c \in {"c1"} : SetAnswerSave(c)
  \/ \E c \in {"c1"}, i \in Ids : FinalizeFind(c, i)
  \/ \E c \in {"c1"} : FinalizeSave(c) \/ FinalizeDelete(c)
  \/ ConductFirst({"c1"})
  \/ \E c \in {"c1"} : ConductGuard(c)
  \/ ConductRest({"c1"})
SpecLetters == InitV2 /\ [][NextLetters]_vars

\* backend/server.js end to end: drafts created and updated, conducted, submitted to
FlowLists == {<<"A">>, <<"A", "b">>, ArrayLike}
NextFlow ==
  \/ Drafts({"c1"}, {<<"t1", 1>>, <<"t2", 1>>}, FlowLists \cup {<< >>})
  \/ ConductFirst({"c1"})
  \/ \E c \in {"c1"} : ConductGuard(c)
  \/ ConductRest({"c1"})
  \/ Submit({"c1"}, {"m1"}, FewAnswerLists)
SpecFlow == Init /\ [][NextFlow]_vars

\* backend/server.js (second program) and unnamed/part_003: promotion of a PDF
\* draft to a DraftExam and of a DraftExam to an Exam, on two connections, where
\* the second store call of a promotion may fail
InitPromote == \E v \in {"v2", "p3"} : Start(v)

NextPromote ==
  \/ \E c \in Clients, q \in {<<"A">>, <<"b">>} : PostDraftsCreate(c, "t1", 1, q)
  \/ Bulk(Clients, {<<"t1", 1>>}, {<<"A">>, <<"b">>})
  \/ \E c \in Clients : PdfUpload(c, "t2", 1, 1)
  \/ \E c \in Clients, i \in Ids : SetAnswerFind(c, i, 0, "a")
  \/ \E c \in Clients : SetAnswerSave(c)
  \/ \E c \in Clients, i \in Ids : FinalizeFind(c, i)
  \/ \E c \in Clients : FinalizeSave(c)
  \/ \E c \in Clients : FinalizeDelete(c)
  \/ \E c \in Clients : FinalizeDeleteFails(c)
  \/ ConductFirst(Clients)
  \/ \E c \in Clients : ConductGuard(c)
  \/ ConductRest(Clients)
  \/ \E c \in Clients : ConductDeleteFails(c)

SpecPromote == InitPromote /\ [][NextPromote]_vars

\* backend/server.js, second program: a draft edited on one connection while the
\* other conducts it
NextEdit ==
  \/ \E c \in Clients : PostDraftsCreate(c, "t1", 1, <<"A">>)
  \/ \E c \in Clients, i \in Ids : PutDrafts(c, i, "t1", 1, <<"b">>)
  \/ ConductFirst(Clients)
  \/ \E c \in Clients : ConductGuard(c)
  \/ ConductRest(Clients)

SpecEdit == InitV2 /\ [][NextEdit]_vars

\* ====================================================== identity of a submission
\* req.user = decoded (authenticate) / req.user = user (authenticateToken): the
\* identity the handler works with is the payload of the verified token
user_FromBody(tok, body) == [mobile |-> body.studentMobile, name |-> body.studentName]

user(tok, body) == [mobile |-> tok.mobile, name |-> tok.name]

\* POST /submit-exam with a body that also carries identity fields: the handler
\* destructures examId and answers only
SubmitExam(c, tok, body) ==
  IF Guard(tok) # 0
  THEN AuthSubmit(c, tok, body.examId, body.answers)
  ELSE SubmitFind(c, body.examId, user(tok, body).mobile, user(tok, body).name, body.answers)

\* every body claims to come from student m2, named n2
Bodies == [examId : {1}, answers : {<<"A">>}, studentMobile : {"m2"}, studentName : {"n2"}]

\* unnamed/part_002 and part_003: an Exam has been conducted
InitIdentity == InitToken /\ variant \in {"p2", "p3"}

NextIdentity ==
  \/ Students(Clients, Names, Mobiles, {"pw"})
  \/ \E c \in Clients, tok \in Credentials, body \in Bodies : SubmitExam(c, tok, body)
  \/ \E c \in Clients : SubmitFindResult(c) \/ SubmitSave(c)

SpecIdentity == InitIdentity /\ [][NextIdentity]_vars

\* ====================================================== properties
\* a request of client c has been answered (or has thrown) and none has followed
Done(c, op) == req[c].op = op /\ req[c].pc = "idle"
\* the Exams built from draft d
MadeFrom(d) == {e \in DOMAIN exams : exams[e].from = d}
ClientError == 400..499

\* C1: draft-to-Exam promotion is one-shot. Once POST /conduct/:draftId has
\* answered with success for draft d, DraftExam d is gone and exactly one Exam
\* built from d exists; a later conduct request for the same, now missing, id
\* is answered 404 and builds no Exam.
C1_ConductOneShot ==
  \A c \in Clients : Done(c, "conduct") =>
    LET d == req[c].id
    IN IF req[c].status = 200
       THEN d \notin DOMAIN draftExams /\ Cardinality(MadeFrom(d)) = 1
       ELSE d \notin DOMAIN draftExams /\ MadeFrom(d) # {} =>
              req[c].status = 404 /\ Cardinality(MadeFrom(d)) = 1

\* part_005: draft 2 was conducted, and a second conduct of id 2 got no answer
C1_SecondConductThrows ==
  \E c \in Clients :
    /\ variant = "p5" /\ Done(c, "conduct") /\ req[c].status = NoResponse
    /\ MadeFrom(req[c].id) # {}

\* the first step of a finalize on a stored PDF draft, and a finalize answered 200
C2_FinalizeStep(c) ==
  \A i \in DOMAIN pdfDrafts : FinalizeFind(c, i) =>
    IF Missing(pdfDrafts[i].questions)
    THEN Done(c, "finalize")' /\ req'[c].status \in ClientError /\ UNCHANGED store
    ELSE req'[c].pc = "saveDraft"

C2_FinalizeDone(c) ==
  Done(c, "finalize") /\ req[c].status = 200 =>
    /\ req[c].id \notin DOMAIN pdfDrafts
    /\ nextId - 1 \in DOMAIN exams

\* C2: POST /api/pdf-draft/:id/finalize rejects a PDF draft, changing nothing
\* in the store, whenever one of its questions still has a null correctAnswer;
\* once every correctAnswer is set it goes on, and when it has answered with
\* success the PDF draft is deleted and the record it produced is an Exam.
C2_FinalizeCoverage ==
  /\ [](\A c \in Clients : C2_FinalizeDone(c))
  /\ [][\A c \in Clients : C2_FinalizeStep(c)]_vars

\* part_005: a DraftExam with a null correctAnswer came out of finalize
C2_UncoveredFinalized ==
  \E c \in Clients :
    /\ variant = "p5" /\ Done(c, "finalize") /\ req[c].status = 200
    /\ nextId - 1 \in DOMAIN draftExams
    /\ Missing(draftExams[nextId - 1].questions)

\* the Results stored for one student and one exam
ResultsOf(who, examId) ==
  {x \in DOMAIN results : results[x].studentMobile = who /\ results[x].examId = examId}

\* the duplicate lookup and the save of one submission
C3_SubmitStep(c) ==
  LET who == req[c].who
      examId == req[c].id
  IN /\ SubmitFindResult(c) /\ ResultsOf(who, examId) # {} =>
          Done(c, "submit")' /\ req'[c].status \in ClientError /\ UNCHANGED store
     /\ SubmitSave(c) =>
          /\ ResultsOf(who, examId) = {}
          /\ Cardinality(ResultsOf(who, examId)') = 1
          /\ Cardinality(DOMAIN results') = Cardinality(DOMAIN results) + 1
          /\ req'[c].status = 200

\* C3: where POST /submit-exam looks up a prior Result (part_003), and requests
\* are served one after the other: a submission by a student who has no Result
\* for the exam persists exactly one, and a submission by a student who has one
\* is rejected with a 4xx response and persists nothing.
C3_SecondSubmitRejected == [][\A c \in Clients : C3_SubmitStep(c)]_vars

\* the second submission of a student was answered 400; the first one's Result stands
C3_Resubmitted ==
  \E c \in Clients :
    /\ variant = "p3" /\ Done(c, "submit") /\ req[c].status = 400
    /\ Cardinality(ResultsOf(req[c].who, req[c].id)) = 1

\* C4: where POST /submit-exam looks up a prior Result (part_003), the store
\* never holds two Results of one (studentMobile, examId) pair, however the
\* steps of concurrent submit requests interleave.
C4_OneResultPerPair ==
  \A x, y \in DOMAIN results :
    results[x].studentMobile = results[y].studentMobile
      /\ results[x].examId = results[y].examId => x = y

\* C5: where POST /conduct/:draftId has the duplicate-conduct guard, the store
\* never holds two Exams of one (title, testNumber) pair, however the steps of
\* concurrent conduct requests interleave.
C5_OneExamPerKey ==
  \A x, y \in DOMAIN exams :
    exams[x].title = exams[y].title
      /\ exams[x].testNumber = exams[y].testNumber => x = y

\* the draft's identifying fields equal an Exam's: title, and testNumber in the
\* program whose guard compares it (v2)
SameKey(e, d) ==
  /\ exams[e].title = draftExams[d].title
  /\ variant = "v2" => exams[e].testNumber = draftExams[d].testNumber

\* the guard step of a conduct whose draft matches an Exam
C6_GuardStep(c) ==
  LET d == req[c].id
  IN ConductGuard(c) /\ d \in DOMAIN draftExams /\ (\E e \in DOMAIN exams : SameKey(e, d)) =>
       Done(c, "conduct")' /\ req'[c].status \in ClientError /\ UNCHANGED store

\* C6: POST /conduct/:draftId on a draft whose identifying fields equal those
\* of an existing Exam is rejected with a 4xx response, creates no Exam and
\* leaves the draft and every other record unchanged.
C6_DuplicateConductRejected ==
  /\ [][\A c \in Clients : C6_GuardStep(c)]_vars
  /\ [](\A c \in Clients : Done(c, "conduct") /\ req[c].status = 200 =>
          \A e \in DOMAIN exams \ MadeFrom(req[c].id) :
            \/ exams[e].title # exams[Min(MadeFrom(req[c].id))].title
            \/ variant = "v2"
                 /\ exams[e].testNumber # exams[Min(MadeFrom(req[c].id))].testNumber)

\* a conduct was answered 400 while its draft, still stored, matches an Exam
C6_Rejected ==
  \E c \in Clients :
    /\ Done(c, "conduct") /\ req[c].status = 400
    /\ req[c].id \in DOMAIN draftExams
    /\ \E e \in DOMAIN exams : SameKey(e, req[c].id)

\* two answer letters that differ at most in case
SameLetter(x, y) ==
  \E l \in {{"A", "a"}, {"B", "b"}, {"C", "c"}, {"D", "d"}, {"X", "x"}} : x \in l /\ y \in l

\* the indices at which the submitted answer equals the key ignoring case
Hits(key, answers) ==
  {i \in 1..Len(key) : i <= Len(answers) /\ SameLetter(key[i], answers[i])}

C8_ExamAnswersSet ==
  variant = "v2" =>
    \A e \in DOMAIN exams : \A i \in 1..Len(exams[e].questions) :
      exams[e].questions[i] # Null

\* C9: in the program whose finalize omits the coverage check (part_005), a
\* question whose correctAnswer is null is never counted as correct, whatever
\* the answers array holds at its index: correct never exceeds the number of
\* questions that carry an answer, and the submission is answered.
C9_NullNeverCorrect ==
  /\ \A x \in DOMAIN results :
       LET key == exams[results[x].examId].questions
       IN results[x].correct <= Cardinality({i \in 1..Len(key) : key[i] # Null})
  /\ \A c \in Clients :
       Done(c, "submit") /\ req[c].id \in DOMAIN exams => req[c].status = 200

\* C10: an answers array shorter than the question list counts every missing
\* index as a non-match, so correct never exceeds the array's length, and the
\* submission is not answered with an error; entries past the question list
\* change nothing: the counts are those of the array cut to the list's length.
C10_ShortAndLongAnswers ==
  /\ \A x \in DOMAIN results :
       LET r == results[x]
           key == exams[r.examId].questions
           cut == SubSeq(r.answers, 1, IF Len(r.answers) < Len(key) THEN Len(r.answers) ELSE Len(key))
       IN /\ r.correct <= Len(r.answers)
          /\ r.correct = Cardinality({i \in 1..Len(cut) : key[i] = cut[i]})
          /\ r.score = r.correct
          /\ r.wrong = r.total - r.correct
          /\ r.total = Len(key)
  /\ \A c \in Clients :
       Done(c, "submit") /\ req[c].id \in DOMAIN exams => req[c].status \in {200, 400}

\* a registration of client c has just been stored and answered with success
Registered(c) == At_(c, "register", "save") /\ Done(c, "register")' /\ req'[c].status = 200

\* C11: when a registration with an unused login key has succeeded, a login
\* with the same login key and the same password as were submitted succeeds
\* and returns the display name stored for that student
C11_RegisterThenLogin ==
  [][\A c \in Clients :
       Registered(c) =>
         LET out == LoginOutcome(students', now', req[c].body.mobile, req[c].body.password)
         IN /\ out.status = 200
            /\ out.body.name = students'[nextId].name]_vars

\* a login with the login key as it was typed at registration finds no student
C11_TypedKeyUnknown ==
  \E c \in Clients :
    /\ Done(c, "login") /\ req[c].status = 404
    /\ req[c].who # trim(req[c].who) /\ WithMobile(trim(req[c].who)) # {}

\* the login key POST /students stores for the request in slot r
StoredKey(r) == IF variant = "p2" THEN trim(r.who) ELSE r.who
\* this step ends a registration of client c
RegisterEnds(c) == req[c] # req'[c] /\ Done(c, "register")'

\* C12: a registration that reuses a stored login key is answered with a
\* conflict response and stores nothing, and no two Students share a login
\* key, whether the registrations are sequential or interleaved
C12_ReusedKeyConflict ==
  /\ [](\A i, j \in DOMAIN students : students[i].mobile = students[j].mobile => i = j)
  /\ [][\A c \in Clients :
          RegisterEnds(c) /\ WithMobile(StoredKey(req'[c])) # {}
          => req'[c].status = 409 /\ students' = students]_vars

\* the registration that lost the race was answered with a server error
C12_LoserGets500 ==
  \E c \in Clients :
    Done(c, "register") /\ req[c].status = 500 /\ WithMobile(StoredKey(req[c])) # {}

\* password p is not the one student was registered with
Differs(p, student) ==
  IF variant = "p3" THEN ~typeofString(p) \/ ~bcryptCompare(p, student.password)
  ELSE String(p) # student.password

\* C13: a login with a stored login key and a password different from the
\* registered one is answered 401, never with a success or a 5xx
C13_WrongPasswordUnauthorized ==
  \A i \in DOMAIN students, p \in Passwords \ {Undef} :
    Differs(p, students[i])
    => LoginOutcome(students, now, students[i].mobile, p).status = 401

\* a login with a stored login key was answered with a server error
C13_LoginServerError ==
  \E c \in Clients : Done(c, "login") /\ req[c].status = 500 /\ WithMobile(req[c].who) # {}

\* C14: the login response (status and body) for an unknown login key equals
\* the response for a known login key with a wrong password
C14_UnknownKeyIndistinguishable ==
  \A i \in DOMAIN students, m \in LoginKeys, p \in {"pw", " pw"} :
    WithMobile(m) = {} /\ Differs(p, students[i])
    => LoginOutcome(students, now, m, p) = LoginOutcome(students, now, students[i].mobile, p)

\* a login with an unknown key was answered 404 while a student is registered
C14_UnknownKey404 ==
  \E c \in Clients :
    Done(c, "login") /\ req[c].status = 404 /\ WithMobile(req[c].who) = {} /\ students # << >>

\* the credential is one login signed and its expiry, if any, has not passed
Genuine(tok) == tok \in issued /\ (tok.exp = NoExpiry \/ now < tok.exp)
\* POST /submit-exam with credential tok: refused by the guard with one of the
\* statuses in S and the store untouched, or handed to the handler as tok's student
GuardedSubmit(c, tok, S) ==
  \A examId \in Ids, a \in {<<"A">>} :
    AuthSubmit(c, tok, examId, a)
    => IF Genuine(tok)
       THEN req'[c].status \notin {401, 403} /\ req'[c].who = tok.mobile
       ELSE /\ req'[c].status \in S /\ req'[c].pc = "idle"
            /\ UNCHANGED <<store, students>>

C16_TokensExpire ==
  \A tok \in issued :
    /\ tok.exp = tok.iat + ExpiresIn
    /\ now >= tok.exp => Guard(tok) # 0

\* a credential without expiry is still accepted more than 7 days after login
C16_AcceptedAfterSevenDays ==
  \E tok \in issued : now > tok.iat + ExpiresIn /\ Guard(tok) = 0

\* C17: a token stays accepted after its student is deleted: a submission
\* with a token login signed earlier, whose student has since been deleted,
\* passes the guard and a Result for the deleted student's mobile is stored
C17_TokenOutlivesStudent ==
  [][\A c \in Clients :
       /\ \A tok \in issued, examId \in DOMAIN exams :
            Genuine(tok) /\ WithMobile(tok.mobile) = {} /\ AuthSubmit(c, tok, examId, <<"A">>)
            => /\ req'[c].pc \in {"findResult", "saveResult"}
               /\ req'[c].who = tok.mobile
       /\ SubmitSave(c)
          => \E x \in DOMAIN results' \ DOMAIN results :
               results'[x].studentMobile = req[c].who]_vars

\* a submission was answered with success and stored for a student who had
\* logged in and been deleted before it arrived
C17_ResultOfDeletedStudent ==
  \E c \in Clients, tok \in issued, x \in DOMAIN results :
    /\ Done(c, "submit") /\ req[c].status = 200 /\ req[c].who = tok.mobile
    /\ results[x].studentMobile = tok.mobile
    /\ WithMobile(tok.mobile) = {}

\* the questions an exam-delivery response of client c shows with their answer
Leaked(c) ==
  IF req[c].op \in {"activeExams", "getExam"} /\ req[c].status = 200
  THEN {<<id, i>> \in Ids \X (1..MaxQ) :
          /\ id \in DOMAIN req[c].body.exams
          /\ i \in DOMAIN req[c].body.exams[id].questions
          /\ req[c].body.exams[id].questions[i] # Hidden}
  ELSE {}

\* C18: no exam-delivery response (GET /active-exams, GET /exam/:id) contains
\* the correct answer of any question
C18_DeliveryHidesAnswers == \A c \in Clients : Leaked(c) = {}

\* GET /active-exams has answered with a question's correct answer
C18_ActiveExamsLeak == \E c \in Clients : req[c].op = "activeExams" /\ Leaked(c) # {}

\* pdfDrafts' is pdfDrafts with the answer of question index (0-based) of
\* draft id set to value and nothing else touched
OnlyAnswerSet(id, index, value) ==
  /\ DOMAIN pdfDrafts' = DOMAIN pdfDrafts
  /\ \A d \in DOMAIN pdfDrafts :
       /\ Len(pdfDrafts'[d].questions) = Len(pdfDrafts[d].questions)
       /\ \A i \in 1..Len(pdfDrafts[d].questions) :
            pdfDrafts'[d].questions[i] =
              IF d = id /\ i = index + 1 THEN value ELSE pdfDrafts[d].questions[i]
  /\ UNCHANGED <<nextId, draftExams, exams, results>>

\* C19: set-answer with an existing draft and a valid index stores the
\* upper-cased letter and leaves every other question and draft unchanged;
\* with an unknown draft id or an out-of-range or absent index it is answered
\* with a not-found error and changes nothing
C19_SetAnswer ==
  [][\A c \in Clients, id \in Ids, index \in IndexInputs :
       /\ SetAnswerFind(c, id, index, "a") /\ req'[c].pc = "save"
          => /\ id \in DOMAIN pdfDrafts /\ index \in 0..(Len(pdfDrafts[id].questions) - 1)
             /\ req'[c].body = [index |-> index, value |-> "A"]
       /\ SetAnswerFind(c, id, index, "a") /\ req'[c].pc # "save"
          => req'[c].status = 404 /\ UNCHANGED store
       /\ SetAnswerSave(c) /\ req'[c].status = 200
          => OnlyAnswerSet(req[c].id, req[c].body.index, req[c].body.value)]_vars

\* set-answer on a stored draft ended without any response
C19_SetAnswerUnanswered ==
  \E c \in Clients :
    Done(c, "setAnswer") /\ req[c].status = NoResponse /\ req[c].id \in DOMAIN pdfDrafts

\* C20: every stored draft (DraftExam or PdfQuestionDraft) has at least one
\* question, whatever intake (manual, bulk, PDF) stored it
C20_DraftsNonEmpty ==
  /\ \A d \in DOMAIN draftExams : Len(draftExams[d].questions) >= 1
  /\ \A d \in DOMAIN pdfDrafts : Len(pdfDrafts[d].questions) >= 1

\* a bulk save was answered with success and stored a draft without questions
C20_EmptyBulkSaved ==
  /\ \E c \in Clients : Done(c, "bulk") /\ req[c].status = 200
  /\ \E d \in DOMAIN draftExams : draftExams[d].totalQuestions = 0

\* C21: in the upsert program of POST /drafts the store holds at most one
\* DraftExam per title, after any sequence or interleaving of requests
C21_OneDraftPerTitle ==
  variant = "v1" =>
    \A i, j \in DOMAIN draftExams : draftExams[i].title = draftExams[j].title => i = j

\* two POST /drafts of one title were both answered with success and each
\* stored its own draft
C21_TwoDraftsOneTitle ==
  /\ variant = "v1"
  /\ \A c \in Clients : Done(c, "postDrafts") /\ req[c].status = 200
  /\ \E i, j \in DOMAIN draftExams : i # j /\ draftExams[i].title = draftExams[j].title

\* C22: once an Exam record exists no request modifies any of its fields or
\* removes it: every later state contains that Exam unchanged
C22_ExamsImmutable ==
  [][\A e \in DOMAIN exams : e \in DOMAIN exams' /\ exams'[e] = exams[e]]_vars

\* an Exam exists and a later request other than a conduct has been served
\* with success
C22_RequestAfterExam ==
  /\ exams # << >>
  /\ \E c \in Clients :
       req[c].op \in {"postDrafts", "putDrafts", "setAnswer", "finalize", "pdfUpload"}
       /\ req[c].pc = "idle" /\ req[c].status = 200

\* C23: every request receives a response: no handler ends without having
\* answered its caller
C23_EveryRequestAnswered ==
  \A c \in Clients : req[c].op # "none" /\ req[c].pc = "idle" => req[c].status # NoResponse

\* a finalize request ended in an exception nothing caught, with no response
C23_FinalizeUnanswered ==
  \E c \in Clients : Done(c, "finalize") /\ req[c].status = NoResponse

\* the blocks of a text: its non-empty lines, the positions of the numbered
\* lines, the option lines between one numbered line and the next
Content(text) == SelectSeq(text, NonEmpty)
Opens(text) == {i \in 1..Len(Content(text)) : Content(text)[i] \in NumberedLines}
BlockEnd(text, i) ==
  LET later == {j \in Opens(text) : j > i}
  IN IF later = {} THEN Len(Content(text)) ELSE Min(later) - 1
IsOptionLine(line) == line \in OptionLines
BlockOptions(text, i) == SelectSeq(SubSeq(Content(text), i + 1, BlockEnd(text, i)), IsOptionLine)
RECURSIVE InOrder(_, _)
InOrder(text, S) ==
  IF S = {} THEN << >>
  ELSE <<BlockOptions(text, Min(S))>> \o InOrder(text, S \ {Min(S)})
\* the option lists of the blocks with at least n options, in text order
BlocksWith(text, n) == InOrder(text, {i \in Opens(text) : Len(BlockOptions(text, i)) >= n})
OptionLists(questions) == [k \in DOMAIN questions |-> questions[k].options]

\* C24: a question block opened by a numbered line is in the parser's output
\* if and only if it collected at least 3 option lines; the other blocks are
\* output unaffected, in order
C24_ThreeOptionsKept ==
  \A c \in Clients :
    At_(c, "pdfUpload", "save")
    => OptionLists(req[c].doc.questions) = BlocksWith(req[c].body.text, 3)

\* a text with a block of 3 options and a block of 2 options was parsed and
\* only the first is in the output
C24_TwoDroppedThreeKept ==
  \E c \in Clients :
    /\ At_(c, "pdfUpload", "save")
    /\ Len(BlocksWith(req[c].body.text, 2)) = 2
    /\ Len(req[c].doc.questions) = 1

Markers == {"A", "B", "C", "D", Null}
AllMarked(coll) ==
  \A d \in DOMAIN coll : \A i \in 1..Len(coll[d].questions) : coll[d].questions[i] \in Markers

\* C26: the correctAnswer of every question of every PDF-origin draft,
\* DraftExam and Exam is one of A, B, C, D or null
C26_AnswersAreMarkers == AllMarked(pdfDrafts) /\ AllMarked(draftExams) /\ AllMarked(exams)

\* an Exam was conducted with a question whose correctAnswer is the letter X
C26_ExamWithX ==
  \E e \in DOMAIN exams : \E i \in 1..Len(exams[e].questions) : exams[e].questions[i] = "X"

\* C27: every stored Result has score = correct, correct + wrong = total and
\* 0 <= correct <= total, total being the number of questions of the Exam it
\* was scored against
C27_ResultArithmetic ==
  \A x \in DOMAIN results :
    LET r == results[x]
    IN /\ r.score = r.correct
       /\ r.correct + r.wrong = r.total
       /\ 0 <= r.correct /\ r.correct <= r.total
       /\ r.examId \in DOMAIN exams
       /\ r.total = Len(exams[r.examId].questions)

\* a Result with total 2 was stored against an Exam that has one question
C27_TotalExceedsQuestions ==
  \E x \in DOMAIN results :
    /\ results[x].examId \in DOMAIN exams
    /\ results[x].total = 2
    /\ Len(exams[results[x].examId].questions) = 1

\* ------------------------------------------------------ C28
\* the Exam a conduct request has written: built from its draft, holding the
\* questions the request read
Promoted(c) ==
  \E e \in DOMAIN exams :
    exams[e].from = req[c].id /\ exams[e].questions = req[c].doc.questions

\* the questions a finalize request has written, in the DraftExam or in the Exam
\* a later conduct made of it
Finalized(c) ==
  LET d == req[c].doc
  IN \/ \E i \in DOMAIN draftExams :
          draftExams[i].title = d.title /\ draftExams[i].questions = d.questions
     \/ \E e \in DOMAIN exams :
          exams[e].title = d.title /\ exams[e].questions = d.questions

C29_AcknowledgedUpdateKept ==
  [][\A c \in Clients :
       (/\ At_(c, "conduct", "deleteDraft")
        /\ req[c].id \in DOMAIN draftExams
        /\ req[c].id \notin DOMAIN draftExams')
       => draftExams[req[c].id].questions = req[c].doc.questions]_vars

\* both requests were answered 200; the draft is gone and no Exam holds the
\* questions the update stored
C29_UpdateLost ==
  \E c \in Clients, d \in Clients :
    /\ Done(c, "putDrafts") /\ req[c].status = 200
    /\ Done(d, "conduct") /\ req[d].status = 200
    /\ req[c].id = req[d].id
    /\ req[c].id \notin DOMAIN draftExams
    /\ \A e \in DOMAIN exams : exams[e].questions = <<"A">>

\* ------------------------------------------------------ C30
\* C30: behind the bearer guard a Result is attributed to the token's holder.  A
\* submission that gets past the guard carries a token login signed and works
\* with that token's mobile and name, whatever the body claims; the identity
\* stays with the request while it is in flight; and the Result a request saves
\* has that identity as its studentMobile and studentName.
C30_ResultBearsTokenIdentity ==
  [][/\ \A c \in Clients, tok \in Credentials, body \in Bodies :
          (SubmitExam(c, tok, body) /\ req'[c].pc # "idle")
          => tok \in issued /\ req'[c].who = tok.mobile /\ req'[c].name = tok.name
     /\ \A c \in Clients :
          (req[c].op = "submit" /\ req[c].pc # "idle")
          => req'[c].who = req[c].who /\ req'[c].name = req[c].name
     /\ \A x \in DOMAIN results' \ DOMAIN results :
          \E c \in Clients :
            /\ At_(c, "submit", "saveResult") /\ req'[c].pc = "idle"
            /\ results'[x].studentMobile = req[c].who
            /\ results'[x].studentName = req[c].name
    ]_vars

\* a request whose body named m2 and n2 was answered 200 and left a Result of
\* the token's holder, m1 named n1
C30_ResultOfHolder ==
  \E c \in Clients, x \in DOMAIN results, tok \in issued :
    /\ Done(c, "submit") /\ req[c].status = 200
    /\ tok.mobile = "m1" /\ tok.name = "n1"
    /\ req[c].who = "m1" /\ req[c].name = "n1"
    /\ results[x].studentMobile = "m1" /\ results[x].studentName = "n1"

====
